---- MODULE Spec2Model ----
(***************************************************************************)
(* Model of src/plugins/data/public/query/timefilter/get_time.ts           *)
(* (calculateBounds, getTime) and of the transform-creation functional     *)
(* test script that follows it in the same source file.                    *)
(*                                                                         *)
(* A JavaScript value that may be undefined is a sequence of length <= 1:  *)
(* <<>> is undefined, <<v>> is the value v.  An instant (a Date or a       *)
(* moment) is an integer number of clock ticks.  A date expression (the    *)
(* strings of a TimeRange) is the sequence of its tokens: <<>> is the      *)
(* empty string, <<"now", "-", "1", "u">> is "now-1u", <<"T", "2">> is the *)
(* absolute timestamp of instant 2.                                        *)
(***************************************************************************)
EXTENDS Integers, Sequences, FiniteSets, TLC

VARIABLES
    indexPattern,   \* the caller's index pattern object (or undefined)
    timeRange,      \* the caller's TimeRange object {from, to}
    forceNow,       \* the caller's forceNow Date (or undefined)
    now,            \* the wall clock, read by moment() when forceNow is absent
    call,           \* the last call: its function and the arguments as passed
    outcome,        \* what the last call did: returned a value or threw
    parseCalls,     \* the dateMath.parse invocations of the last call, in order
    prev,           \* the outcome of the previous call when its arguments were equal
    stamps,         \* the test script: Date.now() at each transformId of testDataList
    pc,             \* the test script: the block (hook or it) and the call it is at
    waiting,        \* the test script: it awaits the call at pc
    inFlight,       \* the calls started and not yet settled
    failed,         \* the blocks in which a call rejected
    done,           \* the calls settled so far, in order
    ui,             \* the browser: the transform wizard and management page
    es              \* the backend: transforms, indices, index patterns, settings

timeVars == <<indexPattern, timeRange, forceNow, now, call, outcome, parseCalls, prev>>

scriptVars == <<stamps, pc, waiting, inFlight, failed, done, ui, es>>

vars == <<timeVars, scriptVars>>

(* ------------------------------ bounds --------------------------------- *)

\* The wall clock runs over 0..MaxClock.
MaxClock == 3
\* The rounding unit "u" spans UnitLen clock ticks.
UnitLen == 2
\* Date.now() at the construction of testDataList runs over 0..MaxStamp.
MaxStamp == 1
\* A started transform reaches 100% in ProgressSteps checkpoints.
ProgressSteps == 2

(* --------------------------- JavaScript values -------------------------- *)

undefined == <<>>

Some(v) == <<v>>

Truthy(v) == v # undefined

\* Object spread {...a, ...b}: the keys of both, b's value where both have the key.
Spread(a, b) ==
    [k \in DOMAIN a \cup DOMAIN b |-> IF k \in DOMAIN b THEN b[k] ELSE a[k]]

(* ------------------------------ dateMath -------------------------------- *)

Digits == {"0", "1", "2", "3"}

DigitVal(d) == CASE d = "0" -> 0 [] d = "1" -> 1 [] d = "2" -> 2 [] d = "3" -> 3

Units == {"u"}

startOf(t) == (t \div UnitLen) * UnitLen

endOf(t) == startOf(t) + UnitLen - 1

\* dateMath's math string: a sequence of operations  (/ | + | -) [number] unit.
\* Rounding is allowed on single units only; a malformed string is undefined.
RECURSIVE parseDateMath(_, _, _)
parseDateMath(mathString, time, roundUp) ==
    IF mathString = <<>> THEN Some(time)
    ELSE LET c == Head(mathString)
             rest == Tail(mathString)
             hasNum == rest # <<>> /\ Head(rest) \in Digits
             num == IF hasNum THEN DigitVal(Head(rest)) ELSE 1
             afterNum == IF hasNum THEN Tail(rest) ELSE rest
         IN  IF c \notin {"/", "+", "-"} THEN undefined
             ELSE IF c = "/" /\ num # 1 THEN undefined
             ELSE IF afterNum = <<>> THEN undefined
             ELSE IF Head(afterNum) \notin Units THEN undefined
             ELSE parseDateMath(
                      Tail(afterNum),
                      CASE c = "/" -> (IF roundUp THEN endOf(time) ELSE startOf(time))
                        [] c = "+" -> time + num * UnitLen
                        [] c = "-" -> time - num * UnitLen,
                      roundUp)

\* dateMath.parse(text, {roundUp = false, forceNow}): undefined for an empty
\* or unparseable text; "now" is options.forceNow when given, else the clock.
parse(text, options, clock) ==
    IF text = <<>> THEN undefined
    ELSE IF Head(text) = "now"
         THEN parseDateMath(
                  Tail(text),
                  IF Truthy(options.forceNow) THEN options.forceNow[1] ELSE clock,
                  IF "roundUp" \in DOMAIN options THEN options.roundUp ELSE FALSE)
    ELSE IF Len(text) = 2 /\ text[1] = "T" /\ text[2] \in Digits
         THEN Some(DigitVal(text[2]))
    ELSE undefined

\* moment.toISOString(): the instant written out as its date and time-of-day parts.
toISOString(t) == [date |-> t \div UnitLen, time |-> t % UnitLen]

(* ------------------------------ es_query -------------------------------- *)

\* buildRangeFilter(field, params, indexPattern): the range filter on the
\* field, carrying the params as given, for the index pattern.
buildRangeFilter(field, params, ip) ==
    [meta |-> [index |-> ip.id], range |-> [field |-> field, params |-> params]]

(* ----------------------------- get_time.ts ------------------------------ *)

\* One dateMath.parse invocation: the text and options passed, and the clock
\* at that moment.
ParseCall(text, options, clock) == [text |-> text, options |-> options, clock |-> clock]

Parsed(p) == parse(p.text, p.options, p.clock)

\* A run of a function: what it returned (or that it threw) and the parse
\* invocations it made, in order.
Returned(v, parses) == [kind |-> "return", value |-> v, parses |-> parses]

Threw(parses) == [kind |-> "throw", value |-> undefined, parses |-> parses]

\* calculateBounds with roundUp passed for the lower bound too.
calculateBounds_roundsBoth(tr, options, clockMin, clockMax) ==
    LET minCall == ParseCall(tr.from, [roundUp |-> TRUE, forceNow |-> options.forceNow],
                             clockMin)
        maxCall == ParseCall(tr.to, [roundUp |-> TRUE, forceNow |-> options.forceNow],
                             clockMax)
    IN  Returned(Some([min |-> Parsed(minCall), max |-> Parsed(maxCall)]),
                 <<minCall, maxCall>>)

\* calculateBounds with forceNow left out of the upper bound's options.
calculateBounds_forceNowOnMinOnly(tr, options, clockMin, clockMax) ==
    LET minCall == ParseCall(tr.from, [forceNow |-> options.forceNow], clockMin)
        maxCall == ParseCall(tr.to, [roundUp |-> TRUE, forceNow |-> undefined], clockMax)
    IN  Returned(Some([min |-> Parsed(minCall), max |-> Parsed(maxCall)]),
                 <<minCall, maxCall>>)

\* calculateBounds(timeRange, options = {}).  clockMin and clockMax are the
\* clock at the parse of the lower and of the upper bound.
calculateBounds(tr, options, clockMin, clockMax) ==
    LET minCall == ParseCall(tr.from, [forceNow |-> options.forceNow], clockMin)
        maxCall == ParseCall(tr.to, [roundUp |-> TRUE, forceNow |-> options.forceNow],
                             clockMax)
    IN  Returned(Some([min |-> Parsed(minCall), max |-> Parsed(maxCall)]),
                 <<minCall, maxCall>>)

\* indexPattern.fields.find(field => field.name === indexPattern.timeFieldName):
\* the first field satisfying the predicate, or undefined.
timefieldOf(pattern) ==
    LET hits == {i \in 1..Len(pattern.fields) :
                    Some(pattern.fields[i].name) = pattern.timeFieldName}
    IN  IF hits = {} THEN undefined
        ELSE Some(pattern.fields[CHOOSE i \in hits : \A j \in hits : i <= j])

\* The params literal with the two bounds exchanged.
filterParams_swapped(bounds) ==
    Spread(
        Spread(
            IF Truthy(bounds.max) THEN [gte |-> toISOString(bounds.max[1])] ELSE <<>>,
            IF Truthy(bounds.min) THEN [lte |-> toISOString(bounds.min[1])] ELSE <<>>),
        [format |-> "strict_date_optional_time"])

\* The params literal with both keys guarded by the lower bound.
filterParams_tiedKeys(bounds) ==
    Spread(
        Spread(
            IF Truthy(bounds.min) THEN [gte |-> toISOString(bounds.min[1])] ELSE <<>>,
            IF Truthy(bounds.min) /\ Truthy(bounds.max)
            THEN [lte |-> toISOString(bounds.max[1])] ELSE <<>>),
        [format |-> "strict_date_optional_time"])

\* The params object literal handed to buildRangeFilter.
filterParams(bounds) ==
    Spread(
        Spread(
            IF Truthy(bounds.min) THEN [gte |-> toISOString(bounds.min[1])] ELSE <<>>,
            IF Truthy(bounds.max) THEN [lte |-> toISOString(bounds.max[1])] ELSE <<>>),
        [format |-> "strict_date_optional_time"])

\* getTime without the guard on indexPattern: indexPattern.fields of undefined throws.
getTime_noPatternGuard(ip, tr, fNow, clockMin, clockMax) ==
    IF ~Truthy(ip) THEN Threw(<<>>)
    ELSE
    LET timefield == timefieldOf(ip[1])
    IN  IF ~Truthy(timefield) THEN Returned(undefined, <<>>)
        ELSE
        LET run == calculateBounds(tr, [forceNow |-> fNow], clockMin, clockMax)
            bounds == run.value
        IN  IF ~Truthy(bounds) THEN Returned(undefined, run.parses)
            ELSE Returned(
                     Some(buildRangeFilter(timefield[1], filterParams(bounds[1]), ip[1])),
                     run.parses)

\* getTime without the guard on timefield: the filter is built on a missing field.
getTime_noFieldGuard(ip, tr, fNow, clockMin, clockMax) ==
    IF ~Truthy(ip) THEN Returned(undefined, <<>>)
    ELSE
    LET timefield == timefieldOf(ip[1])
    IN  IF ~Truthy(timefield) THEN Threw(<<>>)
        ELSE
        LET run == calculateBounds(tr, [forceNow |-> fNow], clockMin, clockMax)
            bounds == run.value
        IN  IF ~Truthy(bounds) THEN Returned(undefined, run.parses)
            ELSE Returned(
                     Some(buildRangeFilter(timefield[1], filterParams(bounds[1]), ip[1])),
                     run.parses)

\* getTime giving up when either bound did not parse.
getTime_needsBothBounds(ip, tr, fNow, clockMin, clockMax) ==
    IF ~Truthy(ip) THEN Returned(undefined, <<>>)
    ELSE
    LET timefield == timefieldOf(ip[1])
    IN  IF ~Truthy(timefield) THEN Returned(undefined, <<>>)
        ELSE
        LET run == calculateBounds(tr, [forceNow |-> fNow], clockMin, clockMax)
            bounds == run.value
        IN  IF ~Truthy(bounds[1].min) \/ ~Truthy(bounds[1].max) THEN Returned(undefined, run.parses)
            ELSE Returned(
                     Some(buildRangeFilter(timefield[1], filterParams(bounds[1]), ip[1])),
                     run.parses)

\* getTime giving up when neither bound parsed.
getTime_needsSomeBound(ip, tr, fNow, clockMin, clockMax) ==
    IF ~Truthy(ip) THEN Returned(undefined, <<>>)
    ELSE
    LET timefield == timefieldOf(ip[1])
    IN  IF ~Truthy(timefield) THEN Returned(undefined, <<>>)
        ELSE
        LET run == calculateBounds(tr, [forceNow |-> fNow], clockMin, clockMax)
            bounds == run.value
        IN  IF ~Truthy(bounds[1].min) /\ ~Truthy(bounds[1].max) THEN Returned(undefined, run.parses)
            ELSE Returned(
                     Some(buildRangeFilter(timefield[1], filterParams(bounds[1]), ip[1])),
                     run.parses)

\* getTime(indexPattern, timeRange, forceNow)
getTime(ip, tr, fNow, clockMin, clockMax) ==
    IF ~Truthy(ip) THEN Returned(undefined, <<>>)
    ELSE
    LET timefield == timefieldOf(ip[1])
    IN  IF ~Truthy(timefield) THEN Returned(undefined, <<>>)
        ELSE
        LET run == calculateBounds(tr, [forceNow |-> fNow], clockMin, clockMax)
            bounds == run.value
        IN  IF ~Truthy(bounds) THEN Returned(undefined, run.parses)
            ELSE Returned(
                     Some(buildRangeFilter(timefield[1], filterParams(bounds[1]), ip[1])),
                     run.parses)

(* ------------------------------- inputs --------------------------------- *)

TimeField == [name |-> "time", type |-> "date"]
BytesField == [name |-> "bytes", type |-> "number"]
OtherTimeField == [name |-> "time", type |-> "number"]

IndexPatterns ==
    { undefined,
      Some([id |-> "logs", timeFieldName |-> Some("time"), fields |-> <<BytesField, TimeField>>]),
      Some([id |-> "logs", timeFieldName |-> Some("time"), fields |-> <<TimeField, OtherTimeField>>]),
      Some([id |-> "logs", timeFieldName |-> undefined, fields |-> <<BytesField, TimeField>>]),
      Some([id |-> "logs", timeFieldName |-> Some("time"), fields |-> <<BytesField>>]),
      Some([id |-> "logs", timeFieldName |-> Some("time"), fields |-> <<>>]) }

DateExprs ==
    { <<>>,                               \* ""
      <<"now">>,                          \* "now"
      <<"now", "-", "1", "u">>,           \* "now-1u"
      <<"now", "/", "u">>,                \* "now/u"
      <<"now", "-", "u", "/", "u">>,      \* "now-u/u"
      <<"T", "2">>,                       \* an absolute timestamp
      <<"bogus">> }                       \* not a date expression

TimeRanges == [from : DateExprs, to : DateExprs]

Dates == {undefined} \cup {Some(t) : t \in {1, MaxClock}}

(* ------------------- creation_index_pattern test script ------------------ *)

\* A name (an index, an index pattern, a transform id) is the sequence of its
\* parts: the template literal `user-${id}` is <<"user-">> \o id.
FtEcommerce == <<"ft_ecommerce">>

\* await transform.<fn>(...args)
Call(fn, args) == [fn |-> fn, args |-> args, awaited |-> TRUE]

\* testDataList, with stamp[i] the value of Date.now() in the i-th transformId.
\* Of expected.pivotAdvancedEditorValue the keys of group_by and of
\* aggregations are kept, of expected.pivotPreview the column.
testDataList(stamp) ==
    << [suiteTitle |-> "batch transform with terms+date_histogram groups and avg agg",
        source |-> FtEcommerce,
        groupByEntries |->
            << [identifier |-> "terms(category.keyword)",
                label |-> "category.keyword",
                intervalLabel |-> undefined],
               [identifier |-> "date_histogram(order_date)",
                label |-> "order_date",
                intervalLabel |-> Some("1m")] >>,
        aggregationEntries |->
            << [identifier |-> "avg(products.base_price)",
                label |-> "products.base_price.avg"] >>,
        transformId |-> <<"ec_1_", stamp[1]>>,
        transformDescription |->
            "ecommerce batch transform with groups terms(category.keyword) + date_histogram(order_date) 1m and aggregation avg(products.base_price)",
        destinationIndex |-> <<"user-">> \o <<"ec_1_", stamp[1]>>,
        expected |->
            [pivotAdvancedEditorValue |->
                 [group_by |-> <<"category.keyword", "order_date">>,
                  aggregations |-> <<"products.base_price.avg">>],
             pivotPreview |-> [column |-> 0],
             row |-> [status |-> "stopped", mode |-> "batch", progress |-> "100"],
             sourcePreview |-> [columns |-> 20, rows |-> 5]]],
       [suiteTitle |-> "batch transform with terms group and percentiles agg",
        source |-> FtEcommerce,
        groupByEntries |->
            << [identifier |-> "terms(geoip.country_iso_code)",
                label |-> "geoip.country_iso_code",
                intervalLabel |-> undefined] >>,
        aggregationEntries |->
            << [identifier |-> "percentiles(products.base_price)",
                label |-> "products.base_price.percentiles"] >>,
        transformId |-> <<"ec_2_", stamp[2]>>,
        transformDescription |->
            "ecommerce batch transform with group by terms(geoip.country_iso_code) and aggregation percentiles(products.base_price)",
        destinationIndex |-> <<"user-">> \o <<"ec_2_", stamp[2]>>,
        expected |->
            [pivotAdvancedEditorValue |->
                 [group_by |-> <<"geoip.country_iso_code">>,
                  aggregations |-> <<"products.base_price.percentiles">>],
             pivotPreview |-> [column |-> 0],
             row |-> [status |-> "stopped", mode |-> "batch", progress |-> "100"],
             sourcePreview |-> [columns |-> 20, rows |-> 5]]] >>

\* One block of the run: a hook or an it, of suite i (0: the outer describe).
Block(kind, suite, title, calls) ==
    [kind |-> kind, suite |-> suite, title |-> title, calls |-> calls]

It(suite, title, calls) == Block("it", suite, title, calls)

\* for (const [index, entry] of testData.groupByEntries.entries()) { ... }
RECURSIVE GroupByCalls(_, _)
GroupByCalls(entries, index) ==
    IF index >= Len(entries) THEN <<>>
    ELSE << Call("wizard.assertGroupByInputExists", <<>>),
            Call("wizard.assertGroupByInputValue", << <<>> >>),
            Call("wizard.addGroupByEntry",
                 <<index, entries[index + 1].identifier, entries[index + 1].label,
                   entries[index + 1].intervalLabel>>) >>
         \o GroupByCalls(entries, index + 1)

\* for (const [index, agg] of testData.aggregationEntries.entries()) { ... }
RECURSIVE AggregationCalls(_, _)
AggregationCalls(entries, index) ==
    IF index >= Len(entries) THEN <<>>
    ELSE << Call("wizard.assertAggregationInputExists", <<>>),
            Call("wizard.assertAggregationInputValue", << <<>> >>),
            Call("wizard.addAggregationEntry",
                 <<index, entries[index + 1].identifier, entries[index + 1].label>>) >>
         \o AggregationCalls(entries, index + 1)

\* The its from 'loads the home page' to 'selects the source data'.
SourceIts(i, testData) ==
    << It(i, "loads the home page",
          << Call("navigation.navigateTo", <<>>),
             Call("management.assertTransformListPageExists", <<>>) >>),
       It(i, "displays the stats bar",
          << Call("management.assertTransformStatsBarExists", <<>>) >>),
       It(i, "loads the source selection modal",
          << Call("management.startTransformCreation", <<>>) >>),
       It(i, "selects the source data",
          << Call("sourceSelection.selectSource", <<testData.source>>) >>) >>

\* The its of the define step, from 'displays the define pivot step' to
\* 'shows the pivot preview'.
DefineIts(i, testData) ==
    << It(i, "displays the define pivot step",
          << Call("wizard.assertDefineStepActive", <<>>) >>),
       It(i, "loads the source index preview",
          << Call("wizard.assertSourceIndexPreviewLoaded", <<>>) >>),
       It(i, "shows the source index preview",
          << Call("wizard.assertSourceIndexPreview",
                  <<testData.expected.sourcePreview.columns,
                    testData.expected.sourcePreview.rows>>) >>),
       It(i, "displays an empty pivot preview",
          << Call("wizard.assertPivotPreviewEmpty", <<>>) >>),
       It(i, "displays the query input",
          << Call("wizard.assertQueryInputExists", <<>>),
             Call("wizard.assertQueryValue", <<"">>) >>),
       It(i, "displays the advanced query editor switch",
          << Call("wizard.assertAdvancedQueryEditorSwitchExists", <<>>),
             Call("wizard.assertAdvancedQueryEditorSwitchCheckState", <<FALSE>>) >>),
       It(i, "adds the group by entries", GroupByCalls(testData.groupByEntries, 0)),
       It(i, "adds the aggregation entries",
          AggregationCalls(testData.aggregationEntries, 0)),
       It(i, "displays the advanced pivot editor switch",
          << Call("wizard.assertAdvancedPivotEditorSwitchExists", <<>>),
             Call("wizard.assertAdvancedPivotEditorSwitchCheckState", <<FALSE>>) >>),
       It(i, "displays the advanced configuration",
          << Call("wizard.enabledAdvancedPivotEditor", <<>>),
             Call("wizard.assertAdvancedPivotEditorContent",
                  <<testData.expected.pivotAdvancedEditorValue>>) >>),
       It(i, "loads the pivot preview",
          << Call("wizard.assertPivotPreviewLoaded", <<>>) >>),
       It(i, "shows the pivot preview",
          << Call("wizard.assertPivotPreviewColumnValues",
                  <<testData.expected.pivotPreview.column>>) >>) >>

\* The its of the details step, from 'loads the details step' to 'displays
\* the continuous mode switch'.
DetailsIts(i, testData) ==
    << It(i, "loads the details step",
          << Call("wizard.advanceToDetailsStep", <<>>) >>),
       It(i, "inputs the transform id",
          << Call("wizard.assertTransformIdInputExists", <<>>),
             Call("wizard.assertTransformIdValue", << <<>> >>),
             Call("wizard.setTransformId", <<testData.transformId>>) >>),
       It(i, "inputs the transform description",
          << Call("wizard.assertTransformDescriptionInputExists", <<>>),
             Call("wizard.assertTransformDescriptionValue", <<"">>),
             Call("wizard.setTransformDescription", <<testData.transformDescription>>) >>),
       It(i, "inputs the destination index",
          << Call("wizard.assertDestinationIndexInputExists", <<>>),
             Call("wizard.assertDestinationIndexValue", << <<>> >>),
             Call("wizard.setDestinationIndex", <<testData.destinationIndex>>) >>),
       It(i, "displays the create index pattern switch",
          << Call("wizard.assertCreateIndexPatternSwitchExists", <<>>),
             Call("wizard.assertCreateIndexPatternSwitchCheckState", <<TRUE>>) >>),
       It(i, "displays the continuous mode switch",
          << Call("wizard.assertContinuousModeSwitchExists", <<>>),
             Call("wizard.assertContinuousModeSwitchCheckState", <<FALSE>>) >>) >>

\* The its of the create step, from 'loads the create step' to 'returns to
\* the management page'.
CreateIts(i, testData) ==
    << It(i, "loads the create step",
          << Call("wizard.advanceToCreateStep", <<>>) >>),
       It(i, "displays the create and start button",
          << Call("wizard.assertCreateAndStartButtonExists", <<>>),
             Call("wizard.assertCreateAndStartButtonEnabled", <<TRUE>>) >>),
       It(i, "displays the create button",
          << Call("wizard.assertCreateButtonExists", <<>>),
             Call("wizard.assertCreateButtonEnabled", <<TRUE>>) >>),
       It(i, "displays the copy to clipboard button",
          << Call("wizard.assertCopyToClipboardButtonExists", <<>>),
             Call("wizard.assertCopyToClipboardButtonEnabled", <<TRUE>>) >>),
       It(i, "creates the transform",
          << Call("wizard.createTransform", <<>>) >>),
       It(i, "starts the transform and finishes processing",
          << Call("wizard.startTransform", <<>>),
             Call("wizard.waitForProgressBarComplete", <<>>) >>),
       It(i, "returns to the management page",
          << Call("wizard.returnToManagement", <<>>) >>) >>

\* The its on the transform list, from 'displays the transforms table' to the
\* last.  expect(rows.filter(row => row.id === id)).to.have.length(1) is the
\* call expect.rowsWithIdToHaveLength.
ListIts(i, testData) ==
    << It(i, "displays the transforms table",
          << Call("management.assertTransformsTableExists", <<>>) >>),
       It(i, "displays the created transform in the transform list",
          << Call("table.refreshTransformList", <<>>),
             Call("table.filterWithSearchString", <<testData.transformId>>),
             Call("table.parseTransformTable", <<>>),
             Call("expect.rowsWithIdToHaveLength", <<testData.transformId, 1>>) >>),
       It(i, "job creation displays details for the created job in the job list",
          << Call("table.assertTransformRowFields",
                  <<testData.transformId,
                    [id |-> testData.transformId,
                     description |-> testData.transformDescription,
                     sourceIndex |-> testData.source,
                     destinationIndex |-> testData.destinationIndex,
                     status |-> testData.expected.row.status,
                     mode |-> testData.expected.row.mode,
                     progress |-> testData.expected.row.progress]>>) >>) >>

\* The its with the define and the details step exchanged.
SuiteIts_detailsBeforeDefine(i, testData) ==
    SourceIts(i, testData) \o DetailsIts(i, testData) \o DefineIts(i, testData)
        \o CreateIts(i, testData) \o ListIts(i, testData)

\* The its of describe(testData.suiteTitle), in the order of the source.
SuiteIts(i, testData) ==
    SourceIts(i, testData) \o DefineIts(i, testData) \o DetailsIts(i, testData)
        \o CreateIts(i, testData) \o ListIts(i, testData)

\* The after hook of describe(testData.suiteTitle).
SuiteAfter(i, testData) ==
    Block("after", i, "after",
          << Call("api.deleteIndices", <<testData.destinationIndex>>),
             Call("testResources.deleteIndexPattern", <<testData.destinationIndex>>) >>)

\* The before hook of describe('creation_index_pattern').
BeforeAll ==
    Block("before", 0, "before",
          << Call("esArchiver.loadIfNeeded", <<"ml/ecommerce">>),
             Call("testResources.createIndexPatternIfNeeded", <<FtEcommerce, "order_date">>),
             Call("testResources.setKibanaTimeZoneToUTC", <<>>),
             Call("securityUI.loginAsTransformPowerUser", <<>>) >>)

\* The after hook of describe('creation_index_pattern').
AfterAll ==
    Block("after", 0, "after", << Call("api.cleanTransformIndices", <<>>) >>)

\* for (const testData of testDataList) describe(...): the blocks of the
\* suites from the i-th on, each suite's its and then its after hook.
RECURSIVE SuiteBlocks(_, _)
SuiteBlocks(list, i) ==
    IF i > Len(list) THEN <<>>
    ELSE SuiteIts(i, list[i]) \o <<SuiteAfter(i, list[i])>> \o SuiteBlocks(list, i + 1)

\* The whole run, in the order the test runner executes it: the outer before
\* hook, the suites one after another, the outer after hook.
Run(stamp) == <<BeforeAll>> \o SuiteBlocks(testDataList(stamp), 1) \o <<AfterAll>>

(* ------------- the application under test: wizard and backend ------------ *)

InitialUi ==
    [page |-> "login", source |-> undefined, query |-> "",
     groupBy |-> <<>>, aggs |-> <<>>, advancedQuery |-> FALSE, advancedPivot |-> FALSE,
     transformId |-> <<>>, description |-> "", destinationIndex |-> <<>>,
     createIndexPattern |-> TRUE, continuous |-> FALSE,
     created |-> FALSE, started |-> FALSE,
     search |-> <<>>, listed |-> {}, rows |-> {}]

InitialEs ==
    [transforms |-> {}, indices |-> {}, indexPatterns |-> {},
     timeZone |-> "Browser", user |-> "none"]

\* A wizard opened anew: an empty form with the switches at their defaults.
FreshWizard(u) ==
    [u EXCEPT !.source = undefined, !.query = "", !.groupBy = <<>>, !.aggs = <<>>,
              !.advancedQuery = FALSE, !.advancedPivot = FALSE,
              !.transformId = <<>>, !.description = "", !.destinationIndex = <<>>,
              !.createIndexPattern = TRUE, !.continuous = FALSE,
              !.created = FALSE, !.started = FALSE]

\* Whether the name holds the search string.
Contains(name, part) ==
    \E k \in 0..(Len(name) - Len(part)) : SubSeq(name, k + 1, k + Len(part)) = part

\* A transform as a row of the management table: its fields as text.
DisplayRow(t) ==
    [id |-> t.id, description |-> t.description, sourceIndex |-> t.sourceIndex,
     destinationIndex |-> t.destinationIndex, status |-> t.status, mode |-> t.mode,
     progress |-> ToString((t.checkpoints * 100) \div ProgressSteps)]

\* The rows of the management table for a search string.
Listed(e, search) == {DisplayRow(t) : t \in {x \in e.transforms : Contains(x.id, search)}}

Result(ok, u, e) == [ok |-> ok, ui |-> u, es |-> e]

\* The assertions that an element of a wizard step or page is there.
PageOf(fn) ==
    CASE fn \in {"management.assertTransformListPageExists",
                 "management.assertTransformStatsBarExists"} -> "management"
      [] fn \in {"wizard.assertDefineStepActive",
                 "wizard.assertSourceIndexPreviewLoaded",
                 "wizard.assertSourceIndexPreview",
                 "wizard.assertQueryInputExists",
                 "wizard.assertAdvancedQueryEditorSwitchExists",
                 "wizard.assertGroupByInputExists",
                 "wizard.assertAggregationInputExists",
                 "wizard.assertAdvancedPivotEditorSwitchExists"} -> "define"
      [] fn \in {"wizard.assertTransformIdInputExists",
                 "wizard.assertTransformDescriptionInputExists",
                 "wizard.assertDestinationIndexInputExists",
                 "wizard.assertCreateIndexPatternSwitchExists",
                 "wizard.assertContinuousModeSwitchExists"} -> "details"
      [] fn \in {"wizard.assertCreateAndStartButtonExists",
                 "wizard.assertCreateButtonExists",
                 "wizard.assertCopyToClipboardButtonExists"} -> "create"
      [] OTHER -> "none"

\* The transform the wizard has created.
Created(u, e) == {t \in e.transforms : t.id = u.transformId}

\* What a call does to the browser and the backend, and whether it resolves
\* (ok) or rejects.
Exec(c, u, e) ==
    LET fn == c.fn
        a == c.args
        pivot == u.groupBy # <<>> /\ u.aggs # <<>>
    IN
    CASE PageOf(fn) # "none" -> Result(u.page = PageOf(fn), u, e)
      [] fn = "esArchiver.loadIfNeeded" ->
            Result(TRUE, u, [e EXCEPT !.indices = @ \cup {FtEcommerce}])
      [] fn = "testResources.createIndexPatternIfNeeded" ->
            Result(TRUE, u, [e EXCEPT !.indexPatterns = @ \cup {a[1]}])
      [] fn = "testResources.setKibanaTimeZoneToUTC" ->
            Result(TRUE, u, [e EXCEPT !.timeZone = "UTC"])
      [] fn = "securityUI.loginAsTransformPowerUser" ->
            Result(TRUE, [u EXCEPT !.page = "home"], [e EXCEPT !.user = "transform_poweruser"])
      [] fn = "navigation.navigateTo" ->
            IF e.user = "none" THEN Result(FALSE, u, e)
            ELSE Result(TRUE, [u EXCEPT !.page = "management", !.search = <<>>,
                                        !.listed = Listed(e, <<>>)], e)
      [] fn = "management.assertTransformsTableExists" ->
            Result(u.page = "management" /\ u.listed # {}, u, e)
      [] fn = "management.startTransformCreation" ->
            IF u.page # "management" THEN Result(FALSE, u, e)
            ELSE Result(TRUE, [FreshWizard(u) EXCEPT !.page = "sourceSelection"], e)
      [] fn = "sourceSelection.selectSource" ->
            IF u.page # "sourceSelection" \/ a[1] \notin e.indexPatterns
            THEN Result(FALSE, u, e)
            ELSE Result(TRUE, [u EXCEPT !.page = "define", !.source = Some(a[1])], e)
      [] fn = "wizard.assertPivotPreviewEmpty" ->
            Result(u.page = "define" /\ ~pivot, u, e)
      [] fn = "wizard.assertQueryValue" ->
            Result(u.page = "define" /\ u.query = a[1], u, e)
      [] fn = "wizard.assertAdvancedQueryEditorSwitchCheckState" ->
            Result(u.page = "define" /\ u.advancedQuery = a[1], u, e)
      [] fn \in {"wizard.assertGroupByInputValue", "wizard.assertAggregationInputValue"} ->
            Result(u.page = "define" /\ a[1] = <<>>, u, e)
      [] fn = "wizard.addGroupByEntry" ->
            IF u.page # "define" \/ Len(u.groupBy) # a[1] THEN Result(FALSE, u, e)
            ELSE Result(TRUE, [u EXCEPT !.groupBy = Append(@, a[3])], e)
      [] fn = "wizard.addAggregationEntry" ->
            IF u.page # "define" \/ Len(u.aggs) # a[1] THEN Result(FALSE, u, e)
            ELSE Result(TRUE, [u EXCEPT !.aggs = Append(@, a[3])], e)
      [] fn = "wizard.assertAdvancedPivotEditorSwitchCheckState" ->
            Result(u.page = "define" /\ u.advancedPivot = a[1], u, e)
      [] fn = "wizard.enabledAdvancedPivotEditor" ->
            IF u.page # "define" THEN Result(FALSE, u, e)
            ELSE Result(TRUE, [u EXCEPT !.advancedPivot = TRUE], e)
      [] fn = "wizard.assertAdvancedPivotEditorContent" ->
            Result(u.page = "define" /\ u.advancedPivot
                     /\ [group_by |-> u.groupBy, aggregations |-> u.aggs] = a[1], u, e)
      [] fn \in {"wizard.assertPivotPreviewLoaded", "wizard.assertPivotPreviewColumnValues"} ->
            Result(u.page = "define" /\ pivot, u, e)
      [] fn = "wizard.advanceToDetailsStep" ->
            IF u.page # "define" \/ ~pivot THEN Result(FALSE, u, e)
            ELSE Result(TRUE, [u EXCEPT !.page = "details"], e)
      [] fn = "wizard.assertTransformIdValue" ->
            Result(u.page = "details" /\ u.transformId = a[1], u, e)
      [] fn = "wizard.setTransformId" ->
            IF u.page # "details" THEN Result(FALSE, u, e)
            ELSE Result(TRUE, [u EXCEPT !.transformId = a[1]], e)
      [] fn = "wizard.assertTransformDescriptionValue" ->
            Result(u.page = "details" /\ u.description = a[1], u, e)
      [] fn = "wizard.setTransformDescription" ->
            IF u.page # "details" THEN Result(FALSE, u, e)
            ELSE Result(TRUE, [u EXCEPT !.description = a[1]], e)
      [] fn = "wizard.assertDestinationIndexValue" ->
            Result(u.page = "details" /\ u.destinationIndex = a[1], u, e)
      [] fn = "wizard.setDestinationIndex" ->
            IF u.page # "details" THEN Result(FALSE, u, e)
            ELSE Result(TRUE, [u EXCEPT !.destinationIndex = a[1]], e)
      [] fn = "wizard.assertCreateIndexPatternSwitchCheckState" ->
            Result(u.page = "details" /\ u.createIndexPattern = a[1], u, e)
      [] fn = "wizard.assertContinuousModeSwitchCheckState" ->
            Result(u.page = "details" /\ u.continuous = a[1], u, e)
      [] fn = "wizard.advanceToCreateStep" ->
            IF \/ u.page # "details"
               \/ u.transformId = <<>>
               \/ u.destinationIndex = <<>>
               \/ Created(u, e) # {}
            THEN Result(FALSE, u, e)
            ELSE Result(TRUE, [u EXCEPT !.page = "create"], e)
      [] fn \in {"wizard.assertCreateAndStartButtonEnabled",
                 "wizard.assertCreateButtonEnabled"} ->
            Result(u.page = "create" /\ (~u.created) = a[1], u, e)
      [] fn = "wizard.assertCopyToClipboardButtonEnabled" ->
            Result(u.page = "create" /\ a[1], u, e)
      [] fn = "wizard.createTransform" ->
            IF u.page # "create" \/ u.created THEN Result(FALSE, u, e)
            ELSE Result(TRUE, [u EXCEPT !.created = TRUE],
                        [e EXCEPT
                           !.transforms = @ \cup
                               {[id |-> u.transformId, description |-> u.description,
                                 sourceIndex |-> u.source[1],
                                 destinationIndex |-> u.destinationIndex,
                                 status |-> "stopped",
                                 mode |-> IF u.continuous THEN "continuous" ELSE "batch",
                                 checkpoints |-> 0]},
                           !.indexPatterns =
                               IF u.createIndexPattern THEN @ \cup {u.destinationIndex}
                               ELSE @])
      [] fn = "wizard.startTransform" ->
            IF u.page # "create" \/ ~u.created \/ u.started THEN Result(FALSE, u, e)
            ELSE Result(TRUE, [u EXCEPT !.started = TRUE],
                        [e EXCEPT
                           !.transforms =
                               {IF t.id = u.transformId THEN [t EXCEPT !.status = "started"]
                                ELSE t : t \in @},
                           !.indices = @ \cup {u.destinationIndex}])
      [] fn = "wizard.waitForProgressBarComplete" ->
            Result(u.page = "create" /\ u.started
                     /\ \A t \in Created(u, e) : t.checkpoints = ProgressSteps, u, e)
      [] fn = "wizard.returnToManagement" ->
            IF u.page # "create" THEN Result(FALSE, u, e)
            ELSE Result(TRUE, [u EXCEPT !.page = "management", !.search = <<>>,
                                        !.listed = Listed(e, <<>>)], e)
      [] fn = "table.refreshTransformList" ->
            IF u.page # "management" THEN Result(FALSE, u, e)
            ELSE Result(TRUE, [u EXCEPT !.listed = Listed(e, u.search)], e)
      [] fn = "table.filterWithSearchString" ->
            IF u.page # "management" THEN Result(FALSE, u, e)
            ELSE Result(TRUE, [u EXCEPT !.search = a[1], !.listed = Listed(e, a[1])], e)
      [] fn = "table.parseTransformTable" ->
            IF u.page # "management" THEN Result(FALSE, u, e)
            ELSE Result(TRUE, [u EXCEPT !.rows = u.listed], e)
      [] fn = "expect.rowsWithIdToHaveLength" ->
            Result(Cardinality({r \in u.rows : r.id = a[1]}) = a[2], u, e)
      [] fn = "table.assertTransformRowFields" ->
            Result(u.page = "management"
                     /\ {r \in Listed(e, a[1]) : r.id = a[1]} = {a[2]}, u, e)
      [] fn = "api.deleteIndices" ->
            Result(TRUE, u, [e EXCEPT !.indices = @ \ {a[1]}])
      [] fn = "testResources.deleteIndexPattern" ->
            Result(TRUE, u, [e EXCEPT !.indexPatterns = @ \ {a[1]}])
      [] fn = "api.cleanTransformIndices" ->
            Result(TRUE, u, [e EXCEPT !.transforms = {}])
      [] OTHER -> Result(FALSE, u, e)

\* A call that retries until its condition holds settles only then: the wait
\* for the progress bar, while the wizard's transform is still running.
Ready(c, u, e) ==
    c.fn = "wizard.waitForProgressBarComplete"
        => ~(u.started /\ \E t \in Created(u, e) : t.checkpoints < ProgressSteps)

(* ---------------------------- the test runner ---------------------------- *)

Program == Run(stamps)

Finished == [block |-> Len(Program) + 1, call |-> 1]

\* The first call of the first block from b on that has one.
RECURSIVE FirstOf(_)
FirstOf(b) ==
    IF b > Len(Program) THEN Finished
    ELSE IF Program[b].calls = <<>> THEN FirstOf(b + 1)
    ELSE [block |-> b, call |-> 1]

\* After a call that resolved: the next statement of the block, else the next block.
Advance(pos) ==
    IF pos.call < Len(Program[pos.block].calls)
    THEN [block |-> pos.block, call |-> pos.call + 1]
    ELSE FirstOf(pos.block + 1)

\* After a call that rejected: the rest of the block is skipped.  A failed
\* outer before hook skips the suites; the outer after hook still runs.
Skip(pos) ==
    IF Program[pos.block].kind = "before" THEN FirstOf(Len(Program))
    ELSE FirstOf(pos.block + 1)

ScriptIdle ==
    /\ pc = [block |-> 1, call |-> 1]
    /\ waiting = FALSE
    /\ inFlight = {}
    /\ failed = {}
    /\ done = <<>>
    /\ ui = InitialUi
    /\ es = InitialEs

\* The script reaches a statement and starts its call; at an await it waits
\* for the call to settle.
StartCall ==
    /\ ~waiting
    /\ pc # Finished
    /\ inFlight' = inFlight \cup {<<pc.block, pc.call>>}
    /\ IF Program[pc.block].calls[pc.call].awaited
       THEN waiting' = TRUE /\ pc' = pc
       ELSE waiting' = FALSE /\ pc' = Advance(pc)
    /\ UNCHANGED <<stamps, failed, done, ui, es>>

\* A call in flight settles: it acts on the browser and the backend, and
\* resolves or rejects.  The script, if it awaits this call, goes on.
SettleCall(b, k) ==
    /\ <<b, k>> \in inFlight
    /\ LET c == Program[b].calls[k]
           r == Exec(c, ui, es)
       IN  /\ Ready(c, ui, es)
           /\ ui' = r.ui
           /\ es' = r.es
           /\ failed' = IF r.ok THEN failed ELSE failed \cup {b}
           /\ done' = Append(done, [block |-> b, suite |-> Program[b].suite,
                                    kind |-> Program[b].kind, fn |-> c.fn])
           /\ IF waiting /\ pc = [block |-> b, call |-> k]
              THEN /\ waiting' = FALSE
                   /\ pc' = IF r.ok THEN Advance(pc) ELSE Skip(pc)
              ELSE UNCHANGED <<waiting, pc>>
    /\ inFlight' = inFlight \ {<<b, k>>}
    /\ UNCHANGED stamps

\* The backend runs a started transform: one more checkpoint; a batch
\* transform stops when its last checkpoint is done.
TransformRuns(id) ==
    /\ \E t \in es.transforms :
           /\ t.id = id
           /\ t.status = "started"
           /\ t.checkpoints < ProgressSteps
           /\ es' = [es EXCEPT !.transforms =
                        (@ \ {t}) \cup
                        {[t EXCEPT !.checkpoints = @ + 1,
                                   !.status = IF t.checkpoints + 1 = ProgressSteps
                                                 /\ t.mode = "batch"
                                              THEN "stopped" ELSE "started"]}]
    /\ UNCHANGED <<stamps, pc, waiting, inFlight, failed, done, ui>>

(* ----------------------- calls of get_time.ts --------------------------- *)

NoCall == [fn |-> "none", indexPattern |-> undefined, timeRange |-> undefined,
           forceNow |-> undefined, at |-> 0]

NoOutcome == [kind |-> "none", value |-> undefined]

NoCalls ==
    /\ indexPattern = undefined
    /\ timeRange = [from |-> <<>>, to |-> <<>>]
    /\ forceNow = undefined
    /\ now = 0
    /\ call = NoCall
    /\ outcome = NoOutcome
    /\ parseCalls = <<>>
    /\ prev = undefined

\* The wall clock advances.
Tick ==
    /\ now < MaxClock
    /\ now' = now + 1
    /\ UNCHANGED <<indexPattern, timeRange, forceNow, call, outcome, parseCalls, prev>>

\* The caller prepares the arguments of the next call: another index pattern,
\* another bound of the time range, another forceNow.
Forget ==
    /\ call' = NoCall
    /\ outcome' = NoOutcome
    /\ parseCalls' = <<>>
    /\ prev' = undefined

SetIndexPattern(ip) ==
    /\ indexPattern' = ip
    /\ Forget
    /\ UNCHANGED <<timeRange, forceNow, now>>

SetFrom(text) ==
    /\ timeRange' = [timeRange EXCEPT !.from = text]
    /\ Forget
    /\ UNCHANGED <<indexPattern, forceNow, now>>

SetTo(text) ==
    /\ timeRange' = [timeRange EXCEPT !.to = text]
    /\ Forget
    /\ UNCHANGED <<indexPattern, forceNow, now>>

SetForceNow(date) ==
    /\ forceNow' = date
    /\ Forget
    /\ UNCHANGED <<indexPattern, timeRange, now>>

\* The record of a call: the arguments as passed, and the clock at entry.
Entered(fn) ==
    [fn |-> fn, indexPattern |-> indexPattern, timeRange |-> timeRange,
     forceNow |-> forceNow, at |-> now]

\* The previous call of the same function, kept while the caller's arguments
\* are not replaced.
Previous(fn) ==
    IF call.fn = fn
    THEN Some([call |-> call, outcome |-> outcome, parses |-> parseCalls])
    ELSE undefined

\* The call with getTime writing defaults into the caller's time range.
CallGetTime_fillsTimeRange(d) ==
    /\ now + d <= MaxClock
    /\ LET run == getTime(indexPattern, timeRange, forceNow, now, now + d)
       IN  /\ outcome' = [kind |-> run.kind, value |-> run.value]
           /\ parseCalls' = run.parses
           /\ now' = IF run.parses = <<>> THEN now ELSE now + d
    /\ call' = Entered("getTime")
    /\ prev' = Previous("getTime")
    /\ timeRange' = [from |-> IF timeRange.from = <<>> THEN <<"now">> ELSE timeRange.from,
                     to |-> IF timeRange.to = <<>> THEN <<"now">> ELSE timeRange.to]
    /\ UNCHANGED <<indexPattern, forceNow>>

\* getTime(indexPattern, timeRange, forceNow) is called on the caller's
\* objects.  The clock may advance by d between the parse of the lower and
\* of the upper bound.  The function holds references to the caller's objects
\* and writes to none of them.
CallGetTime(d) ==
    /\ now + d <= MaxClock
    /\ LET run == getTime(indexPattern, timeRange, forceNow, now, now + d)
       IN  /\ outcome' = [kind |-> run.kind, value |-> run.value]
           /\ parseCalls' = run.parses
           /\ now' = IF run.parses = <<>> THEN now ELSE now + d
    /\ call' = Entered("getTime")
    /\ prev' = Previous("getTime")
    /\ UNCHANGED <<indexPattern, timeRange, forceNow>>

\* calculateBounds(timeRange, {forceNow}) is called on the caller's objects.
CallCalculateBounds(d) ==
    /\ now + d <= MaxClock
    /\ LET run == calculateBounds(timeRange, [forceNow |-> forceNow], now, now + d)
       IN  /\ outcome' = [kind |-> run.kind, value |-> run.value]
           /\ parseCalls' = run.parses
    /\ now' = now + d
    /\ call' = Entered("calculateBounds")
    /\ prev' = Previous("calculateBounds")
    /\ UNCHANGED <<indexPattern, timeRange, forceNow>>

(* --------------------------- specifications ----------------------------- *)

\* The callers of get_time.ts: the test script does not run.
Init ==
    /\ NoCalls
    /\ stamps = <<0, 0>>
    /\ ScriptIdle

Next ==
    \/ Tick /\ UNCHANGED scriptVars
    \/ \E ip \in IndexPatterns : SetIndexPattern(ip) /\ UNCHANGED scriptVars
    \/ \E text \in DateExprs : SetFrom(text) /\ UNCHANGED scriptVars
    \/ \E text \in DateExprs : SetTo(text) /\ UNCHANGED scriptVars
    \/ \E date \in Dates : SetForceNow(date) /\ UNCHANGED scriptVars
    \/ \E d \in {0, 1} : CallGetTime(d) /\ UNCHANGED scriptVars
    \/ \E d \in {0, 1} : CallCalculateBounds(d) /\ UNCHANGED scriptVars

Spec == Init /\ [][Next]_vars

\* The run of the test script: Date.now() does not go back between the two
\* transformIds of testDataList.
ScriptInit ==
    /\ NoCalls
    /\ stamps \in {<<a, b>> : a \in 0..MaxStamp, b \in 0..MaxStamp}
    /\ stamps[1] <= stamps[2]
    /\ ScriptIdle

ScriptNext ==
    \/ StartCall /\ UNCHANGED timeVars
    \/ \E b \in 1..Len(Program) : \E k \in 1..Len(Program[b].calls) :
           SettleCall(b, k) /\ UNCHANGED timeVars
    \/ \E t \in es.transforms : TransformRuns(t.id) /\ UNCHANGED timeVars

ScriptSpec == ScriptInit /\ [][ScriptNext]_vars

(* ------------------------------- claims --------------------------------- *)

GetTimeCalled == call.fn = "getTime"

CalculateBoundsCalled == call.fn = "calculateBounds"

ReturnedUndefined == outcome = [kind |-> "return", value |-> undefined]

ReturnedFilter == outcome.kind = "return" /\ outcome.value # undefined

ReturnedBounds == CalculateBoundsCalled /\ outcome.kind = "return" /\ outcome.value # undefined

\* The positions of the fields of an index pattern whose name is its timeFieldName.
TimeFieldPositions(ip) ==
    IF ip = undefined THEN {}
    ELSE {i \in 1..Len(ip[1].fields) : Some(ip[1].fields[i].name) = ip[1].timeFieldName}

HasTimeField(ip) == TimeFieldPositions(ip) # {}

\* The clock at the i-th parse of the last call (the clock at entry if there was none).
ClockAt(i) == IF Len(parseCalls) >= i THEN parseCalls[i].clock ELSE call.at

\* What the two ends of the passed time range parse to: the lower end without
\* round-up, the upper end with it, both against the passed forceNow.
LowerBound ==
    parse(call.timeRange.from, [roundUp |-> FALSE, forceNow |-> call.forceNow], ClockAt(1))

UpperBound ==
    parse(call.timeRange.to, [roundUp |-> TRUE, forceNow |-> call.forceNow], ClockAt(2))

\* A relative expression that ends by rounding to the unit, such as "now/u".
IsRounded(text) ==
    /\ Len(text) >= 3
    /\ text[1] = "now"
    /\ text[Len(text) - 1] = "/"
    /\ text[Len(text)] \in Units

\* C1: getTime called with an undefined index pattern returns undefined, does
\* not throw, and makes no dateMath.parse call, whatever the time range and
\* forceNow.
C1_UndefinedIndexPattern ==
    (GetTimeCalled /\ call.indexPattern = undefined)
        => (ReturnedUndefined /\ parseCalls = <<>>)

C1_Witness ==
    /\ GetTimeCalled
    /\ call.indexPattern = undefined
    /\ call.timeRange = [from |-> <<"now", "-", "1", "u">>, to |-> <<"now">>]
    /\ call.forceNow # undefined
    /\ ReturnedUndefined

\* C2: getTime called with a defined index pattern none of whose fields is
\* named timeFieldName (timeFieldName unset and an empty field list included)
\* returns undefined and does not throw, whatever the time range.
C2_NoTimeField ==
    (GetTimeCalled /\ call.indexPattern # undefined /\ ~HasTimeField(call.indexPattern))
        => ReturnedUndefined

C2_Witness ==
    /\ GetTimeCalled
    /\ call.indexPattern # undefined
    /\ call.indexPattern[1].timeFieldName = undefined
    /\ call.indexPattern[1].fields # <<>>
    /\ call.timeRange = [from |-> <<"now", "-", "1", "u">>, to |-> <<"now">>]
    /\ ReturnedUndefined

\* C3: when the index pattern has a field named timeFieldName and both ends
\* of the time range parse, getTime returns the range filter on that field
\* (the first so named) and that index pattern whose params are exactly
\* gte = ISO string of the lower bound, lte = ISO string of the upper bound,
\* format = 'strict_date_optional_time': no gt or lt key.
C3_RangeFilter ==
    (GetTimeCalled /\ HasTimeField(call.indexPattern)
       /\ LowerBound # undefined /\ UpperBound # undefined)
        => /\ ReturnedFilter
           /\ LET filter == outcome.value[1]
                  pattern == call.indexPattern[1]
                  first == CHOOSE i \in TimeFieldPositions(call.indexPattern) :
                               \A j \in TimeFieldPositions(call.indexPattern) : i <= j
              IN  /\ filter.meta.index = pattern.id
                  /\ filter.range.field = pattern.fields[first]
                  /\ filter.range.params =
                         [gte |-> toISOString(LowerBound[1]),
                          lte |-> toISOString(UpperBound[1]),
                          format |-> "strict_date_optional_time"]
                  /\ DOMAIN filter.range.params = {"gte", "lte", "format"}

C3_Witness ==
    /\ GetTimeCalled
    /\ ReturnedFilter
    /\ call.timeRange = [from |-> <<"now", "-", "1", "u">>, to |-> <<"now", "/", "u">>]
    /\ call.forceNow = Some(1)
    /\ outcome.value[1].range.params.gte # outcome.value[1].range.params.lte

\* C4: calculateBounds rounds only the upper bound: max is timeRange.to parsed
\* with round-up, min is timeRange.from parsed without.  When from and to are
\* the same rounded expression, min is the start of a unit, max the end of
\* one, min <= max and [min, max] covers that whole unit; it is exactly that
\* unit when both bounds are resolved against the same instant.
C4_RoundsUpperOnly ==
    CalculateBoundsCalled
        => /\ ReturnedBounds
           /\ outcome.value[1].min = LowerBound
           /\ outcome.value[1].max = UpperBound
           /\ (IsRounded(call.timeRange.from) /\ call.timeRange.to = call.timeRange.from)
                => LET min == outcome.value[1].min
                       max == outcome.value[1].max
                   IN  /\ min # undefined
                       /\ max # undefined
                       /\ min[1] = startOf(min[1])
                       /\ max[1] = endOf(max[1])
                       /\ min[1] <= max[1]
                       /\ max[1] >= endOf(min[1])
                       /\ (call.forceNow # undefined \/ ClockAt(1) = ClockAt(2))
                            => max[1] = min[1] + UnitLen - 1

C4_Witness ==
    /\ CalculateBoundsCalled
    /\ call.timeRange = [from |-> <<"now", "/", "u">>, to |-> <<"now", "/", "u">>]
    /\ call.forceNow = undefined
    /\ outcome.value[1].min = Some(UnitLen)
    /\ outcome.value[1].max = Some(2 * UnitLen - 1)

\* C5 as claimed: when an end of the time range is missing or unparseable,
\* getTime returns undefined, even when the index pattern and its time field
\* exist.
C5_Original ==
    (GetTimeCalled /\ HasTimeField(call.indexPattern)
       /\ (LowerBound = undefined \/ UpperBound = undefined))
        => ReturnedUndefined

\* C5 as amended: when an end of the time range is missing or unparseable and
\* the index pattern and its time field exist, getTime does not throw and
\* returns a range filter, not undefined; the filter has no key for an end
\* that did not parse and still has its format.
C5_UnparsedBoundOmitted ==
    (GetTimeCalled /\ HasTimeField(call.indexPattern)
       /\ (LowerBound = undefined \/ UpperBound = undefined))
        => /\ ReturnedFilter
           /\ LET params == outcome.value[1].range.params
              IN  /\ LowerBound = undefined => "gte" \notin DOMAIN params
                  /\ UpperBound = undefined => "lte" \notin DOMAIN params
                  /\ "format" \in DOMAIN params

C5_Witness ==
    /\ GetTimeCalled
    /\ HasTimeField(call.indexPattern)
    /\ call.timeRange = [from |-> <<>>, to |-> <<"bogus">>]
    /\ ReturnedFilter

\* C6: getTime and calculateBounds are side-effect-free: after a call the
\* index pattern, the time range and forceNow are as they were passed, and a
\* call's result does not depend on an earlier call (equal arguments and equal
\* clock readings give an equal result).
C6_SideEffectFree ==
    call.fn # "none"
        => /\ indexPattern = call.indexPattern
           /\ timeRange = call.timeRange
           /\ forceNow = call.forceNow
           /\ (prev # undefined
                 /\ prev[1].call.indexPattern = call.indexPattern
                 /\ prev[1].call.timeRange = call.timeRange
                 /\ prev[1].call.forceNow = call.forceNow
                 /\ (parseCalls = <<>> \/ prev[1].parses = parseCalls))
                => prev[1].outcome = outcome

C6_Witness ==
    /\ GetTimeCalled
    /\ prev # undefined
    /\ ReturnedFilter
    /\ timeRange = [from |-> <<>>, to |-> <<"now">>]
    /\ HasTimeField(indexPattern)

\* C7: getTime passes the forceNow it was given to the parse of from and of
\* to; with forceNow given, two calls with equal arguments return equal
\* results whatever the wall clock at each, and relative expressions in from
\* and to are resolved against the same instant, forceNow.
C7_ForceNowBothBounds ==
    GetTimeCalled
        => /\ \A i \in 1..Len(parseCalls) : parseCalls[i].options.forceNow = call.forceNow
           /\ (call.forceNow # undefined /\ prev # undefined
                 /\ prev[1].call.indexPattern = call.indexPattern
                 /\ prev[1].call.timeRange = call.timeRange
                 /\ prev[1].call.forceNow = call.forceNow)
                => prev[1].outcome = outcome
           /\ (call.forceNow # undefined /\ ReturnedFilter
                 /\ call.timeRange = [from |-> <<"now">>, to |-> <<"now">>])
                => /\ outcome.value[1].range.params.gte = toISOString(call.forceNow[1])
                   /\ outcome.value[1].range.params.lte = toISOString(call.forceNow[1])

C7_Witness ==
    /\ GetTimeCalled
    /\ call.forceNow = Some(1)
    /\ prev # undefined
    /\ prev[1].call.at < call.at
    /\ ClockAt(1) < ClockAt(2)
    /\ call.timeRange = [from |-> <<"now">>, to |-> <<"now">>]
    /\ ReturnedFilter

\* C8: getTime returns undefined exactly when the index pattern is undefined
\* or has no field named timeFieldName; calculateBounds always returns an
\* object with the keys min and max, so once the time field is found a filter
\* is returned for every time range.
C8_UndefinedIffNoField ==
    /\ GetTimeCalled
         => /\ outcome.kind = "return"
            /\ (outcome.value = undefined <=> ~HasTimeField(call.indexPattern))
    /\ CalculateBoundsCalled
         => /\ ReturnedBounds
            /\ DOMAIN outcome.value[1] = {"min", "max"}

C8_Witness ==
    /\ GetTimeCalled
    /\ HasTimeField(call.indexPattern)
    /\ LowerBound = undefined
    /\ UpperBound = undefined
    /\ ReturnedFilter

\* C9: in the params of a filter getTime returns, gte is present iff the
\* lower bound parsed and lte is present iff the upper bound parsed, each
\* independently of the other; format is 'strict_date_optional_time' in every
\* returned filter.
C9_KeysFollowBounds ==
    (GetTimeCalled /\ ReturnedFilter)
        => LET params == outcome.value[1].range.params
           IN  /\ ("gte" \in DOMAIN params) <=> (LowerBound # undefined)
               /\ ("lte" \in DOMAIN params) <=> (UpperBound # undefined)
               /\ "format" \in DOMAIN params
               /\ params.format = "strict_date_optional_time"

C9_Witness ==
    /\ GetTimeCalled
    /\ ReturnedFilter
    /\ LowerBound = undefined
    /\ UpperBound # undefined
    /\ DOMAIN outcome.value[1].range.params = {"lte", "format"}

\* The steps the order of which C10 fixes, numbered in that order.
MilestoneRank(fn) ==
    CASE fn = "sourceSelection.selectSource" -> 1
      [] fn = "wizard.addGroupByEntry" -> 2
      [] fn = "wizard.addAggregationEntry" -> 3
      [] fn = "wizard.advanceToDetailsStep" -> 4
      [] fn = "wizard.advanceToCreateStep" -> 5
      [] fn = "wizard.createTransform" -> 6
      [] fn = "wizard.startTransform" -> 7
      [] fn = "wizard.waitForProgressBarComplete" -> 8
      [] fn = "wizard.returnToManagement" -> 9
      [] OTHER -> 0

\* The positions of the settled calls of function fn of suite i.
SettledAt(i, fn) == {p \in 1..Len(done) : done[p].suite = i /\ done[p].fn = fn}

\* The positions of the settled calls of the its of suite i.
SettledIts(i) == {p \in 1..Len(done) : done[p].suite = i /\ done[p].kind = "it"}

\* The number of calls in the its of suite i.
RECURSIVE CallsOfIts(_, _)
CallsOfIts(i, b) ==
    IF b > Len(Program) THEN 0
    ELSE (IF Program[b].suite = i /\ Program[b].kind = "it"
          THEN Len(Program[b].calls) ELSE 0) + CallsOfIts(i, b + 1)

Suites == 1..Len(testDataList(stamps))

\* C10: the script runs its steps one after another, never two calls in
\* flight, in the order select source, group-by entries, aggregation entries,
\* details step, create step, create transform, start transform, wait for
\* progress complete, return to management, each suite after the one before.
\* No step fails.  Once a suite has returned to the management page the
\* backend holds exactly one transform with the suite's transformId, which the
\* list shows with status 'stopped', mode 'batch' and progress '100'; its
\* destination index and index pattern exist until the suite's after hook,
\* which runs only after every call of the suite's its has settled.
C10_SequentialScript ==
    /\ Cardinality(inFlight) <= 1
    /\ failed = {}
    /\ \A p, q \in 1..Len(done) :
           p < q =>
               /\ done[p].block <= done[q].block
               /\ (done[p].suite = done[q].suite
                     /\ MilestoneRank(done[p].fn) > 0 /\ MilestoneRank(done[q].fn) > 0)
                    => /\ MilestoneRank(done[p].fn) <= MilestoneRank(done[q].fn)
                       /\ MilestoneRank(done[p].fn) = MilestoneRank(done[q].fn)
                            => MilestoneRank(done[p].fn) \in {2, 3}
    /\ \A i \in Suites :
           LET testData == testDataList(stamps)[i]
               returned == SettledAt(i, "wizard.returnToManagement") # {}
               deleted == SettledAt(i, "api.deleteIndices")
                              \cup SettledAt(i, "testResources.deleteIndexPattern")
               mine == {t \in es.transforms : t.id = testData.transformId}
           IN  /\ (returned /\ SettledAt(0, "api.cleanTransformIndices") = {})
                    => /\ Cardinality(mine) = 1
                       /\ \A t \in mine :
                              /\ DisplayRow(t).status = "stopped"
                              /\ DisplayRow(t).mode = "batch"
                              /\ DisplayRow(t).progress = "100"
               /\ returned
                    => /\ Cardinality(SettledAt(i, "wizard.addGroupByEntry"))
                              = Len(testData.groupByEntries)
                       /\ Cardinality(SettledAt(i, "wizard.addAggregationEntry"))
                              = Len(testData.aggregationEntries)
                       /\ \A r \in 1..8 :
                              \E p \in SettledIts(i) : MilestoneRank(done[p].fn) = r
               /\ (returned /\ SettledAt(i, "api.deleteIndices") = {})
                    => testData.destinationIndex \in es.indices
               /\ (returned /\ SettledAt(i, "testResources.deleteIndexPattern") = {})
                    => testData.destinationIndex \in es.indexPatterns
               /\ \A p \in deleted :
                      /\ SettledIts(i) \subseteq 1..(p - 1)
                      /\ Cardinality(SettledIts(i)) = CallsOfIts(i, 1)

C10_Witness ==
    /\ stamps = <<0, 1>>
    /\ failed = {}
    /\ inFlight = {}
    /\ \A i \in Suites :
           /\ SettledAt(i, "testResources.deleteIndexPattern") # {}
           /\ testDataList(stamps)[i].destinationIndex \notin es.indices
           /\ testDataList(stamps)[i].destinationIndex \notin es.indexPatterns
    /\ Cardinality(es.transforms) = 2
    /\ \A t \in es.transforms : t.status = "stopped" /\ t.checkpoints = ProgressSteps
    /\ pc.block = Len(Program)

====
